---- MODULE Spec2Model ----
(***************************************************************************)
(* Model of the ExtractRequestId extractor (src/src/lib.rs).               *)
(*                                                                         *)
(* Header values and identifiers are sequences of byte values (0..255);    *)
(* a parsed Uuid is its 16 bytes.  Option<T> is a sequence of at most one  *)
(* element: <<>> is None, <<x>> is Some(x).                                *)
(***************************************************************************)
EXTENDS Integers, Sequences, FiniteSets, TLC

\* ------------------------------------------------------------- bounds
\* Requests in flight at once (concurrent specification).
NumReq == 2
\* Times a returned identifier is sent back as the header of a new request.
MaxReplays == 1
\* Longest run of whitespace put before / after a header value.
MaxPad == 1

\* ---------------------------------------------------------- constants
HEADER_X_REQUEST_ID == "X-Request-Id"

BAD_REQUEST == 400

\* ------------------------------------------------------ byte helpers
Some(x) == <<x>>

IsDigit(b) == b >= 48 /\ b <= 57
IsLowerHex(b) == b >= 97 /\ b <= 102
IsUpperHex(b) == b >= 65 /\ b <= 70
IsUpper(b) == b >= 65 /\ b <= 90
IsLower(b) == b >= 97 /\ b <= 122

\* ------------------------------------------- HeaderValue::to_str (l.51)
\* Ok only when every byte is visible ASCII (32..126) or a tab.
to_str_ok(bytes) ==
    \A i \in 1..Len(bytes) : bytes[i] = 9 \/ (bytes[i] >= 32 /\ bytes[i] < 127)

\* ---------------------------------------------------- str::trim (l.51)
\* White_Space code points that can occur in ASCII text.
\* Mutant: only the space is trimmed.
is_whitespace_space_only(b) == b = 32

is_whitespace(b) == b \in {9, 10, 11, 12, 13, 32}

RECURSIVE trim_start(_)
trim_start(s) == IF s # <<>> /\ is_whitespace(Head(s)) THEN trim_start(Tail(s)) ELSE s

RECURSIVE trim_end(_)
trim_end(s) ==
    IF s # <<>> /\ is_whitespace(s[Len(s)]) THEN trim_end(SubSeq(s, 1, Len(s) - 1)) ELSE s

trim(s) == trim_end(trim_start(s))

\* -------------------------------------------- str::to_lowercase (l.51)
to_lowercase_char(b) == IF IsUpper(b) THEN b + 32 ELSE b

to_lowercase(s) == [i \in 1..Len(s) |-> to_lowercase_char(s[i])]

\* ------------------------------------------------ Uuid::try_parse (l.52)
\* Mutant: the letter range of a hex digit ends one too far, at g.
HexVal_through_g(b) ==
    IF IsDigit(b) THEN b - 48
    ELSE IF b >= 97 /\ b <= 103 THEN b - 87
    ELSE IF b >= 65 /\ b <= 71 THEN b - 55
    ELSE 255

\* HEX_TABLE: the value of a hex digit of either case, 255 for any other byte.
HexVal(b) ==
    IF IsDigit(b) THEN b - 48
    ELSE IF IsLowerHex(b) THEN b - 87
    ELSE IF IsUpperHex(b) THEN b - 55
    ELSE 255

ParseErr == [ok |-> FALSE, bytes |-> <<>>]

ParseOk(bytes) == [ok |-> TRUE, bytes |-> bytes]

\* 32 hex digits, two per byte.
parse_simple(s) ==
    IF Len(s) # 32 THEN ParseErr
    ELSE IF \E i \in 1..32 : HexVal(s[i]) = 255 THEN ParseErr
    ELSE ParseOk([i \in 1..16 |-> HexVal(s[2 * i - 1]) * 16 + HexVal(s[2 * i])])

\* Start (1-based) of each group of four hex digits in the hyphenated form.
HyphenatedPositions == <<1, 5, 10, 15, 20, 25, 29, 33>>

\* Mutant: the four hyphens are not checked.
parse_hyphenated_any_separator(s) ==
    IF Len(s) # 36 THEN ParseErr
    ELSE IF \E j \in 1..8 : \E k \in 0..3 :
               HexVal(s[HyphenatedPositions[j] + k]) = 255 THEN ParseErr
    ELSE ParseOk([i \in 1..16 |->
            LET p == HyphenatedPositions[(i + 1) \div 2] + 2 * ((i + 1) % 2)
            IN  HexVal(s[p]) * 16 + HexVal(s[p + 1])])

\* 8-4-4-4-12: hyphens at (1-based) 9, 14, 19, 24, hex digits elsewhere.
parse_hyphenated(s) ==
    IF Len(s) # 36 THEN ParseErr
    ELSE IF ~(s[9] = 45 /\ s[14] = 45 /\ s[19] = 45 /\ s[24] = 45) THEN ParseErr
    ELSE IF \E j \in 1..8 : \E k \in 0..3 :
               HexVal(s[HyphenatedPositions[j] + k]) = 255 THEN ParseErr
    ELSE ParseOk([i \in 1..16 |->
            LET p == HyphenatedPositions[(i + 1) \div 2] + 2 * ((i + 1) % 2)
            IN  HexVal(s[p]) * 16 + HexVal(s[p + 1])])

\* "urn:uuid:"
UrnPrefix == <<117, 114, 110, 58, 117, 117, 105, 100, 58>>

\* Dispatch on the length: simple (32), hyphenated (36), braced (38), URN (45).
try_parse(s) ==
    IF Len(s) = 32 THEN parse_simple(s)
    ELSE IF Len(s) = 36 THEN parse_hyphenated(s)
    ELSE IF Len(s) = 38 /\ s[1] = 123 /\ s[38] = 125
        THEN parse_hyphenated(SubSeq(s, 2, 37))
    ELSE IF Len(s) = 45 /\ SubSeq(s, 1, 9) = UrnPrefix
        THEN parse_hyphenated(SubSeq(s, 10, 45))
    ELSE ParseErr

\* ---------------------------------------------- Uuid::get_version (l.67)
get_version_num(bytes) == bytes[7] \div 16

is_nil(bytes) == \A i \in 1..16 : bytes[i] = 0

\* Option<Version>: None for a version number that names no Version
\* (0 in a UUID that is not nil, 9..14).
get_version(bytes) ==
    LET n == get_version_num(bytes)
    IN  IF n = 0 /\ is_nil(bytes) THEN Some("Nil")
        ELSE IF n = 1 THEN Some("Mac")
        ELSE IF n = 2 THEN Some("Dce")
        ELSE IF n = 3 THEN Some("Md5")
        ELSE IF n = 4 THEN Some("Random")
        ELSE IF n = 5 THEN Some("Sha1")
        ELSE IF n = 6 THEN Some("SortMac")
        ELSE IF n = 7 THEN Some("SortRand")
        ELSE IF n = 8 THEN Some("Custom")
        ELSE IF n = 15 THEN Some("Max")
        ELSE <<>>

\* ------------------------------------- Uuid::now_v7().to_string() (l.83)
\* 48-bit big-endian Unix milliseconds, version 7, 12 random bits, variant
\* 10, 62 random bits.  random is 10 bytes.
\* Mutant: the version bits are left as the random bits.
now_v7_unversioned(millis, random) ==
    [i \in 1..16 |->
        IF i <= 6 THEN millis[i]
        ELSE IF i = 9 THEN 128 + (random[3] % 64)
        ELSE random[i - 6]]

now_v7(millis, random) ==
    [i \in 1..16 |->
        IF i <= 6 THEN millis[i]
        ELSE IF i = 7 THEN 112 + (random[1] % 16)
        ELSE IF i = 8 THEN random[2]
        ELSE IF i = 9 THEN 128 + (random[3] % 64)
        ELSE random[i - 6]]

\* Mutant: upper-case hex digits.
UpperHexDigit(n) == IF n < 10 THEN 48 + n ELSE 55 + n

LowerHexDigit(n) == IF n < 10 THEN 48 + n ELSE 87 + n

\* Hyphenated lower-case text of the 16 bytes.
to_string(bytes) ==
    LET hex == [i \in 1..32 |->
                  LowerHexDigit(IF i % 2 = 1 THEN bytes[(i + 1) \div 2] \div 16
                                ELSE bytes[i \div 2] % 16)]
    IN  SubSeq(hex, 1, 8) \o <<45>> \o SubSeq(hex, 9, 12) \o <<45>> \o
        SubSeq(hex, 13, 16) \o <<45>> \o SubSeq(hex, 17, 20) \o <<45>> \o
        SubSeq(hex, 21, 32)

\* --------------------------------------------------------- the inputs
\* The identifiers of the repository's tests, as 32 hex-digit values:
\* 01965864-f8ab-7eb8-912a-a2c999ab110e and 6edaba95-4f5b-4547-be3f-85210d3ff8bf.
SampleV7 == <<0,1,9,6,5,8,6,4, 15,8,10,11, 7,14,11,8, 9,1,2,10, 10,2,12,9,9,9,10,11,1,1,0,14>>

SampleV4 == <<6,14,13,10,11,10,9,5, 4,15,5,11, 4,5,4,7, 11,14,3,15, 8,5,2,1,0,13,3,15,15,8,11,15>>

NilDigits == [i \in 1..32 |-> 0]

MaxDigits == [i \in 1..32 |-> 15]

\* The 13th hex digit is the version.
WithVersion(digits, v) == [digits EXCEPT ![13] = v]

Digits ==
    {WithVersion(d, v) : d \in {SampleV7, SampleV4}, v \in 0..15}
        \cup {NilDigits, MaxDigits, WithVersion(NilDigits, 7)}

\* Text of 32 hex digits in each textual form, lower case.
DigitText(digits) == [i \in 1..32 |-> IF digits[i] < 10 THEN 48 + digits[i] ELSE 87 + digits[i]]

HyphenText(digits) ==
    LET t == DigitText(digits)
    IN  SubSeq(t, 1, 8) \o <<45>> \o SubSeq(t, 9, 12) \o <<45>> \o SubSeq(t, 13, 16)
            \o <<45>> \o SubSeq(t, 17, 20) \o <<45>> \o SubSeq(t, 21, 32)

Forms == {"hyphenated", "simple", "braced", "urn"}

FormText(form, digits) ==
    CASE form = "hyphenated" -> HyphenText(digits)
      [] form = "simple" -> DigitText(digits)
      [] form = "braced" -> <<123>> \o HyphenText(digits) \o <<125>>
      [] form = "urn" -> <<117, 114, 110, 58, 117, 117, 105, 100, 58>> \o HyphenText(digits)

\* Letter case of a text: as is (lower), all upper, every other letter upper.
Cases == {"lower", "upper", "mixed"}

CaseText(c, t) ==
    [i \in 1..Len(t) |->
        IF t[i] >= 97 /\ t[i] <= 122 /\ (c = "upper" \/ (c = "mixed" /\ i % 2 = 0))
        THEN t[i] - 32 ELSE t[i]]

\* Runs of spaces and tabs of at most MaxPad bytes.
RECURSIVE PadsOfLen(_)
PadsOfLen(n) ==
    IF n = 0 THEN {<<>>}
    ELSE {<<b>> \o p : b \in {32, 9}, p \in PadsOfLen(n - 1)}

Pads == UNION {PadsOfLen(n) : n \in 0..MaxPad}

\* Damaged forms of a well-formed text (in the simple form, which has no
\* hyphens, moving or losing one leaves 32 hex digits), and other texts.
Defects == {"truncated", "extended", "bad_hex", "hyphen_moved", "hyphen_lost",
            "inner_space", "unclosed_brace"}

DefectText(d, t) ==
    CASE d = "truncated" -> SubSeq(t, 1, Len(t) - 1)
      [] d = "extended" -> t \o <<48>>
      [] d = "bad_hex" -> [t EXCEPT ![Len(t)] = 103]
      [] d = "hyphen_moved" -> [t EXCEPT ![Len(t) - 12] = t[Len(t) - 13],
                                         ![Len(t) - 13] = t[Len(t) - 12]]
      [] d = "hyphen_lost" -> [t EXCEPT ![Len(t) - 12] = 48]
      [] d = "inner_space" -> [t EXCEPT ![Len(t) - 3] = 32]
      [] d = "unclosed_brace" -> <<123>> \o t

\* "this-is-not-a-uuid"
NotAUuidText == <<116,104,105,115,45,105,115,45,110,111,116,45,97,45,117,117,105,100>>

\* A text with one byte that is not ASCII (obs-text, legal in a header value).
NonText(t) == [t EXCEPT ![2] = 233]

WellFormedTexts == {CaseText(c, FormText(f, d)) : c \in Cases, f \in Forms, d \in Digits}

DamagedTexts ==
    {CaseText(c, DefectText(x, FormText(f, d))) :
        c \in {"lower", "upper"}, x \in Defects, f \in Forms, d \in {SampleV7, SampleV4}}
        \cup {<<>>, NotAUuidText, CaseText("upper", NotAUuidText)}

NonTextTexts == {NonText(FormText(f, SampleV7)) : f \in Forms} \cup {<<233>>}

Padded(texts) == {a \o t \o b : a \in Pads, b \in Pads, t \in texts}

\* The header values of the sequential specification.
HeaderValues == Padded(WellFormedTexts) \cup Padded(DamagedTexts) \cup Padded(NonTextTexts)

\* Millisecond clock readings (6 bytes) and random fillers (10 bytes).
Millis == {[i \in 1..6 |-> 0], <<1, 150, 88, 100, 248, 171>>, [i \in 1..6 |-> 255]}

Randoms == {[i \in 1..10 |-> b] : b \in {0, 90, 165, 255}}

\* ---------------------------------------------------------- the state
VARIABLES
    reqs,        \* the requests in flight
    header,      \* header[r]: Option of the X-Request-Id value (l.47)
    pc,          \* pc[r]: where from_request_parts stands for r
    request_id,  \* request_id[r]: the normalized text (l.51)
    parsed,      \* parsed_request_id[r] (l.52)
    version,     \* request_id_version[r]: Option<Version> (l.67)
    result,      \* what from_request_parts returned for r
    log,         \* the records given to the logger, in order
    replays      \* replays[r]: times r's identifier was sent back

vars == <<reqs, header, pc, request_id, parsed, version, result, log, replays>>

Pending == [kind |-> "Pending", id |-> <<>>, status |-> 0, msg |-> ""]

Ok(id) == [kind |-> "Ok", id |-> id, status |-> 0, msg |-> ""]

Err(status, msg) == [kind |-> "Err", id |-> <<>>, status |-> status, msg |-> msg]

\* l.61-64
NotAValidUuid == Err(BAD_REQUEST, "Invalid " \o HEADER_X_REQUEST_ID \o " : Not a valid UUID")

\* l.75-78
NotAnUuidV7 == Err(BAD_REQUEST, "Invalid " \o HEADER_X_REQUEST_ID \o " : Not an UUID v7")

LogRecord(r, text, detail) ==
    [req |-> r, level |-> "error", header |-> HEADER_X_REQUEST_ID, text |-> text,
     detail |-> detail]

Fresh(rs, h) ==
    /\ reqs = rs
    /\ header = h
    /\ pc = [r \in rs |-> "start"]
    /\ request_id = [r \in rs |-> <<>>]
    /\ parsed = [r \in rs |-> ParseErr]
    /\ version = [r \in rs |-> <<>>]
    /\ result = [r \in rs |-> Pending]
    /\ log = <<>>
    /\ replays = [r \in rs |-> 0]

\* One request, any header value or none.
Init == \E h \in {<<>>} \cup {Some(v) : v \in HeaderValues} : Fresh({1}, [r \in {1} |-> h])

\* ------------------------------------------------ from_request_parts
\* l.83: no header, a new UUID v7.
Synthesize(r) ==
    /\ pc[r] = "start"
    /\ header[r] = <<>>
    /\ \E millis \in Millis, random \in Randoms :
          result' = [result EXCEPT ![r] = Ok(to_string(now_v7(millis, random)))]
    /\ pc' = [pc EXCEPT ![r] = "done"]
    /\ UNCHANGED <<reqs, header, request_id, parsed, version, log, replays>>

\* l.51: to_str().unwrap() panics on a value that is not text.
Normalize(r) ==
    /\ pc[r] = "start"
    /\ header[r] # <<>>
    /\ request_id' = [request_id EXCEPT ![r] =
                        IF to_str_ok(header[r][1])
                        THEN to_lowercase(trim(header[r][1])) ELSE @]
    /\ pc' = [pc EXCEPT ![r] = IF to_str_ok(header[r][1]) THEN "parse" ELSE "panicked"]
    /\ UNCHANGED <<reqs, header, parsed, version, result, log, replays>>

\* Mutant: every call parses from one shared buffer, that of the first request.
TryParse_shared_buffer(r) ==
    /\ pc[r] = "parse"
    /\ parsed' = [parsed EXCEPT ![r] =
                    try_parse(request_id[CHOOSE q \in reqs : \A p \in reqs : q <= p])]
    /\ pc' = [pc EXCEPT ![r] = "check_parse"]
    /\ UNCHANGED <<reqs, header, request_id, version, result, log, replays>>

\* l.52
TryParse(r) ==
    /\ pc[r] = "parse"
    /\ parsed' = [parsed EXCEPT ![r] = try_parse(request_id[r])]
    /\ pc' = [pc EXCEPT ![r] = "check_parse"]
    /\ UNCHANGED <<reqs, header, request_id, version, result, log, replays>>

\* l.54-59
LogParseError(r) ==
    /\ pc[r] = "check_parse"
    /\ ~parsed[r].ok
    /\ log' = Append(log, LogRecord(r, "Failed to parse UUID due to", "InvalidUuid"))
    /\ pc' = [pc EXCEPT ![r] = "return_not_uuid"]
    /\ UNCHANGED <<reqs, header, request_id, parsed, version, result, replays>>

\* l.61-64
ReturnNotUuid(r) ==
    /\ pc[r] = "return_not_uuid"
    /\ result' = [result EXCEPT ![r] = NotAValidUuid]
    /\ pc' = [pc EXCEPT ![r] = "done"]
    /\ UNCHANGED <<reqs, header, request_id, parsed, version, log, replays>>

\* l.67: get_version().unwrap() panics when the version names no Version.
GetVersion(r) ==
    /\ pc[r] = "check_parse"
    /\ parsed[r].ok
    /\ version' = [version EXCEPT ![r] = get_version(parsed[r].bytes)]
    /\ pc' = [pc EXCEPT ![r] =
                IF get_version(parsed[r].bytes) = <<>> THEN "panicked" ELSE "check_version"]
    /\ UNCHANGED <<reqs, header, request_id, parsed, result, log, replays>>

\* Mutant: the version failure is not logged.
LogVersionError_silent(r) ==
    /\ pc[r] = "check_version"
    /\ version[r] # Some("SortRand")
    /\ pc' = [pc EXCEPT ![r] = "return_not_v7"]
    /\ UNCHANGED <<reqs, header, request_id, parsed, version, result, log, replays>>

\* l.69-73
LogVersionError(r) ==
    /\ pc[r] = "check_version"
    /\ version[r] # Some("SortRand")
    /\ log' = Append(log, LogRecord(r, "Failed to validate UUID due to : Version is",
                                    version[r][1]))
    /\ pc' = [pc EXCEPT ![r] = "return_not_v7"]
    /\ UNCHANGED <<reqs, header, request_id, parsed, version, result, replays>>

\* l.75-78
ReturnNotV7(r) ==
    /\ pc[r] = "return_not_v7"
    /\ result' = [result EXCEPT ![r] = NotAnUuidV7]
    /\ pc' = [pc EXCEPT ![r] = "done"]
    /\ UNCHANGED <<reqs, header, request_id, parsed, version, log, replays>>

\* Mutant: the parsed value is serialized again instead of the text echoed.
ReturnEcho_reserialized(r) ==
    /\ pc[r] = "check_version"
    /\ version[r] = Some("SortRand")
    /\ result' = [result EXCEPT ![r] = Ok(to_string(parsed[r].bytes))]
    /\ pc' = [pc EXCEPT ![r] = "done"]
    /\ UNCHANGED <<reqs, header, request_id, parsed, version, log, replays>>

\* l.81
ReturnEcho(r) ==
    /\ pc[r] = "check_version"
    /\ version[r] = Some("SortRand")
    /\ result' = [result EXCEPT ![r] = Ok(request_id[r])]
    /\ pc' = [pc EXCEPT ![r] = "done"]
    /\ UNCHANGED <<reqs, header, request_id, parsed, version, log, replays>>

\* The caller sends a returned identifier back as the header of a new request.
Replay(r) ==
    /\ pc[r] = "done"
    /\ result[r].kind = "Ok"
    /\ replays[r] < MaxReplays
    /\ header' = [header EXCEPT ![r] = Some(result[r].id)]
    /\ pc' = [pc EXCEPT ![r] = "start"]
    /\ request_id' = [request_id EXCEPT ![r] = <<>>]
    /\ parsed' = [parsed EXCEPT ![r] = ParseErr]
    /\ version' = [version EXCEPT ![r] = <<>>]
    /\ result' = [result EXCEPT ![r] = Pending]
    /\ replays' = [replays EXCEPT ![r] = replays[r] + 1]
    /\ UNCHANGED <<reqs, log>>

\* The steps of the calls in flight.
Calls ==
    \/ \E r \in reqs : Synthesize(r)
    \/ \E r \in reqs : Normalize(r)
    \/ \E r \in reqs : TryParse(r)
    \/ \E r \in reqs : LogParseError(r)
    \/ \E r \in reqs : ReturnNotUuid(r)
    \/ \E r \in reqs : GetVersion(r)
    \/ \E r \in reqs : LogVersionError(r)
    \/ \E r \in reqs : ReturnNotV7(r)
    \/ \E r \in reqs : ReturnEcho(r)

Next == Calls \/ \E r \in reqs : Replay(r)

Spec == Init /\ [][Next]_vars

\* ------------------------------------------- concurrent requests
\* NumReq requests in flight at once, each with one of a few header values.
ConcHeaders ==
    {<<>>,
     Some(<<32>> \o CaseText("upper", FormText("hyphenated", SampleV7)) \o <<9>>),
     Some(FormText("hyphenated", SampleV4)),
     Some(FormText("simple", WithVersion(SampleV7, 9))),
     Some(NotAUuidText),
     Some(NonText(FormText("hyphenated", SampleV7)))}

InitConc == \E h \in [1..NumReq -> ConcHeaders] : Fresh(1..NumReq, h)

\* Each call runs once.
SpecConc == InitConc /\ [][Calls]_vars

\* ------------------------------------------------ twin requests
\* Two requests whose header values are the same text in different letter
\* case and with different whitespace around it.
TwinTexts ==
    {FormText(f, SampleV7) : f \in Forms}
        \cup {FormText("hyphenated", SampleV4), FormText("simple", WithVersion(SampleV7, 9))}
        \cup {DefectText(x, FormText("hyphenated", SampleV7)) :
                   x \in {"bad_hex", "hyphen_lost", "inner_space"}}
        \cup {NotAUuidText, <<>>, NonText(FormText("urn", SampleV7))}

InitTwin ==
    \/ \E t \in TwinTexts, c1 \in Cases, c2 \in Cases, a1 \in Pads, b1 \in Pads,
          p2 \in {<<>>} \cup PadsOfLen(MaxPad) :
          Fresh({1, 2}, <<Some(a1 \o CaseText(c1, t) \o b1),
                          Some(p2 \o CaseText(c2, t) \o p2)>>)
    \/ Fresh({1, 2}, <<<<>>, <<>>>>)

SpecTwin == InitTwin /\ [][Calls]_vars

\* ---------------------------------------------- what the claims speak of
Terminal(r) == pc[r] \in {"done", "panicked"}

Present(r) == header[r] # <<>>

\* A header value that is text: visible ASCII and tabs.
IsText(h) == \A i \in 1..Len(h) : h[i] = 9 \/ h[i] \in 32..126

\* The value without the spaces and tabs around it: from its first to its
\* last byte that is neither.
Stripped(h) ==
    LET inner == {i \in 1..Len(h) : h[i] \notin {32, 9}}
    IN  IF inner = {} THEN <<>>
        ELSE SubSeq(h, CHOOSE i \in inner : \A j \in inner : i <= j,
                       CHOOSE i \in inner : \A j \in inner : j <= i)

\* The value with A..Z replaced by a..z.
Folded(h) == [i \in 1..Len(h) |-> IF h[i] \in 65..90 THEN h[i] + 32 ELSE h[i]]

Normalized(h) == Folded(Stripped(h))

\* UUID syntax: 8-4-4-4-12 hex digits, bare, in braces or after "urn:uuid:",
\* or 32 hex digits.
IsHex(b) == b \in (48..57) \cup (97..102) \cup (65..70)

IsHyphenatedUuid(t) ==
    /\ Len(t) = 36
    /\ \A i \in 1..36 : IF i \in {9, 14, 19, 24} THEN t[i] = 45 ELSE IsHex(t[i])

IsSimpleUuid(t) == Len(t) = 32 /\ \A i \in 1..32 : IsHex(t[i])

IsBracedUuid(t) ==
    Len(t) = 38 /\ t[1] = 123 /\ t[38] = 125 /\ IsHyphenatedUuid(SubSeq(t, 2, 37))

IsUrnUuid(t) ==
    /\ Len(t) = 45
    /\ SubSeq(t, 1, 9) = <<117, 114, 110, 58, 117, 117, 105, 100, 58>>
    /\ IsHyphenatedUuid(SubSeq(t, 10, 45))

IsUuidSyntax(t) == IsHyphenatedUuid(t) \/ IsSimpleUuid(t) \/ IsBracedUuid(t) \/ IsUrnUuid(t)

\* The 32 hex digits of a text in UUID syntax.
HexDigitsOf(t) ==
    IF IsUrnUuid(t) THEN SelectSeq(SubSeq(t, 10, 45), IsHex) ELSE SelectSeq(t, IsHex)

\* The version digit (the 13th hex digit) of a text in UUID syntax.
VersionDigit(t) == IF IsUuidSyntax(t) THEN HexDigitsOf(t)[13] ELSE 0

IsUuidV7Text(t) == IsUuidSyntax(t) /\ VersionDigit(t) = 55

LogCount(r) == Cardinality({i \in 1..Len(log) : log[i].req = r})

\* C1: with the header absent the call never fails or panics, and what it
\* returns is Ok with a hyphenated UUID text whose version digit is 7.
C1_AbsentSynthesizesV7 ==
    \A r \in reqs : ~Present(r) =>
        /\ pc[r] \in {"start", "done"}
        /\ pc[r] = "start" => ENABLED Synthesize(r)
        /\ pc[r] = "done" =>
              /\ result[r].kind = "Ok"
              /\ IsHyphenatedUuid(result[r].id)
              /\ IsUuidV7Text(result[r].id)

C1_Witness ==
    \E r \in reqs : ~Present(r) /\ pc[r] = "done" /\ result[r].kind = "Ok"
                    /\ result[r].id[1] = 102

\* C2: a text header value whose trimmed, lower-cased form is in UUID syntax
\* with version 7 is never rejected, and the call returns Ok with exactly
\* that trimmed, lower-cased form.
C2_ValidV7Echoed ==
    \A r \in reqs :
        (Present(r) /\ IsText(header[r][1]) /\ IsUuidV7Text(Normalized(header[r][1]))) =>
            /\ pc[r] \notin {"panicked", "return_not_uuid", "return_not_v7"}
            /\ pc[r] = "done" => result[r] = Ok(Normalized(header[r][1]))

\* A braced upper-case value with whitespace around it was echoed.
C2_Witness ==
    \E r \in reqs :
        /\ Present(r) /\ pc[r] = "done" /\ replays[r] = 0
        /\ IsUuidV7Text(Normalized(header[r][1]))
        /\ header[r][1] # Normalized(header[r][1])
        /\ IsBracedUuid(result[r].id)
        /\ result[r] = Ok(Normalized(header[r][1]))

\* C3: a header value that parses as a UUID after normalization and whose
\* version is not 7 is rejected with 400 "Invalid X-Request-Id : Not an UUID
\* v7", whatever the version digit.
C3_OtherVersionRejected ==
    \A r \in reqs :
        (Present(r) /\ IsText(header[r][1]) /\ IsUuidSyntax(Normalized(header[r][1]))
            /\ VersionDigit(Normalized(header[r][1])) # 55) =>
            /\ pc[r] # "panicked"
            /\ pc[r] = "done" => result[r] = NotAnUuidV7

C5_NeverPanics == \A r \in reqs : pc[r] # "panicked"

\* C6: every identifier returned in Ok is in UUID syntax with version digit 7.
C6_ReturnedIsUuidV7 ==
    \A r \in reqs : result[r].kind = "Ok" => IsUuidV7Text(result[r].id)

C6_Witness ==
    \E r \in reqs : result[r].kind = "Ok" /\ Present(r) /\ IsUrnUuid(result[r].id)
                    /\ replays[r] = 0

\* C7: a request has an error record in the log exactly when its call has
\* taken a rejection path; the record is there before the error is returned,
\* and a call that returned Ok, or has not yet rejected, has none.
C7_LogIffRejected ==
    /\ \A i \in 1..Len(log) :
          log[i].level = "error" /\ log[i].header = HEADER_X_REQUEST_ID
    /\ \A r \in reqs :
          LogCount(r) =
             IF pc[r] \in {"return_not_uuid", "return_not_v7"}
                    \/ (pc[r] = "done" /\ result[r].kind = "Err")
             THEN 1 ELSE 0

C7_Witness ==
    \E r \in reqs : pc[r] = "done" /\ result[r] = NotAnUuidV7 /\ LogCount(r) = 1
                    /\ log[1].detail = "Random"

\* C8: two header values that are the same up to letter case and up to the
\* spaces and tabs around them end the same way: the same Ok text, which is
\* the trimmed lower-cased value, the same rejection, or the same panic.
C8_CaseAndPadInsensitive ==
    \A r1 \in reqs, r2 \in reqs :
        (/\ Terminal(r1) /\ Terminal(r2)
         /\ Present(r1) /\ Present(r2)
         /\ Normalized(header[r1][1]) = Normalized(header[r2][1])) =>
            /\ pc[r1] = pc[r2]
            /\ result[r1] = result[r2]
            /\ result[r1].kind = "Ok" => result[r1].id = Normalized(header[r1][1])

\* A tab-led value and its twin in another letter case were both echoed.
C8_Witness ==
    /\ reqs = {1, 2}
    /\ pc[1] = "done" /\ pc[2] = "done"
    /\ result[1].kind = "Ok" /\ result[1] = result[2]
    /\ Present(1) /\ Present(2)
    /\ header[1][1][1] = 9
    /\ Folded(header[1][1]) # Folded(header[2][1])
    /\ Stripped(header[1][1]) # Stripped(header[2][1])

\* C9: with several calls in flight, a call with a header ends as it would
\* alone, by its own header value only, and a call that has not ended can
\* always take its next step.
StepOf(r) ==
    \/ Synthesize(r) \/ Normalize(r) \/ TryParse(r) \/ LogParseError(r)
    \/ ReturnNotUuid(r) \/ GetVersion(r) \/ LogVersionError(r) \/ ReturnNotV7(r)
    \/ ReturnEcho(r)

\* Version digits 1..8 and f name a version, 0 does so for the nil UUID only.
AloneOutcome(h) ==
    LET n == Normalized(h)
    IN  IF ~IsText(h) THEN <<"panicked", Pending>>
        ELSE IF ~IsUuidSyntax(n) THEN <<"done", NotAValidUuid>>
        ELSE IF VersionDigit(n) = 55 THEN <<"done", Ok(n)>>
        ELSE IF VersionDigit(n) \in {49, 50, 51, 52, 53, 54, 56, 102}
            THEN <<"done", NotAnUuidV7>>
        ELSE IF \A i \in 1..32 : HexDigitsOf(n)[i] = 48 THEN <<"done", NotAnUuidV7>>
        ELSE <<"panicked", Pending>>

C9_ConcurrentIndependent ==
    \A r \in reqs :
        /\ ~Terminal(r) => ENABLED StepOf(r)
        /\ (Present(r) /\ Terminal(r)) => <<pc[r], result[r]>> = AloneOutcome(header[r][1])

C9_Witness ==
    /\ Cardinality(reqs) > 1
    /\ \A r \in reqs : Terminal(r)
    /\ \E r1 \in reqs, r2 \in reqs :
          /\ r1 < r2
          /\ Present(r1) /\ Present(r2)
          /\ result[r1].kind = "Ok" /\ result[r2] = NotAValidUuid
          /\ log # <<>> /\ log[1].req = r2

\* C10: an identifier returned in Ok and sent back as the header of a new
\* request is accepted and returned unchanged.
C10_ReplayIdempotent ==
    \A r \in reqs : replays[r] > 0 =>
        /\ Present(r)
        /\ pc[r] \notin {"panicked", "return_not_uuid", "return_not_v7"}
        /\ pc[r] = "done" => result[r] = Ok(header[r][1])

\* An identifier made by now_v7 (no header value starts with ffffffff-ffff-7)
\* came back unchanged.
C10_Witness ==
    \E r \in reqs : replays[r] > 0 /\ pc[r] = "done" /\ result[r] = Ok(header[r][1])
                    /\ result[r].id[1] = 102 /\ result[r].id[15] = 55

====
